---- MODULE Spec2Model ----
(***************************************************************************)
(* box-db: a typed access layer over a versioned object-store engine       *)
(* (IndexedDB).  The module models the BoxDB class of                      *)
(* src/src/core/database.ts: the model registry (metas), the open()        *)
(* life cycle with its version-upgrade handler, the schema reconciler      *)
(* update(), transaction() and close(), together with the part of the      *)
(* engine these talk to (stores, indexes, records, database version).      *)
(***************************************************************************)
EXTENDS Integers, Sequences, FiniteSets, TLC

\* ------------------------------------------------------------------ bounds
\* Highest database version an application instance asks for.
MaxVersion == 2
\* Record keys are 1..MaxKey.
MaxKey == 1
\* Longest task list handed to transaction().
MaxTasks == 2
\* The records a model operation works on have the keys 1..MaxRecord.
MaxRecord == 3

\* ------------------------------------------------------------ value domains
\* Object store names, in the order of db.objectStoreNames (a sorted list).
StoreNames == <<"a", "b">>
\* Field names, in the order of objectStore.indexNames (a sorted list).
FieldNames == <<"f", "g", "id">>

NoKey == "null"
NoError == "none"

Range(s) == {s[i] : i \in 1..Len(s)}

\* ------------------------------------------------------------------ schemes
\* A scheme is the list of Object.entries(scheme): a field is either a bare
\* BoxDataTypes string (configured = FALSE) or a ConfiguredType.
Plain(f) ==
    [field |-> f, configured |-> FALSE, key |-> FALSE, index |-> FALSE, unique |-> FALSE]
Configured(f, k, i, u) ==
    [field |-> f, configured |-> TRUE, key |-> k, index |-> i, unique |-> u]

\* The schemes an application declares in this model: two that swap which of
\* the indexes f and g is unique, one with the single index f, one without an
\* in-line key, and two that toMeta refuses.
UniqueF ==
    <<Configured("id", TRUE, FALSE, FALSE), Configured("f", FALSE, TRUE, TRUE),
      Configured("g", FALSE, TRUE, FALSE)>>
UniqueG ==
    <<Configured("id", TRUE, FALSE, FALSE), Configured("f", FALSE, TRUE, FALSE),
      Configured("g", FALSE, TRUE, TRUE)>>
IndexF ==
    <<Configured("id", TRUE, FALSE, FALSE), Configured("f", FALSE, TRUE, FALSE),
      Plain("g")>>
NoInKey == <<Plain("id"), Plain("f")>>
TwoKeys ==
    <<Configured("id", TRUE, FALSE, FALSE), Configured("f", TRUE, FALSE, FALSE)>>
UniqueNoIndex == <<Plain("id"), Configured("f", FALSE, FALSE, TRUE)>>

\* BoxModelOption: { autoIncrement?, force? }
Option(a, f) == [autoIncrement |-> a, force |-> f]

\* The (scheme, options) pairs handed to model().
Declarations ==
    { <<UniqueF, Option(FALSE, FALSE)>>, <<UniqueG, Option(FALSE, FALSE)>>,
      <<IndexF, Option(FALSE, FALSE)>>,  <<NoInKey, Option(FALSE, FALSE)>>,
      <<IndexF, Option(TRUE, FALSE)>>,   <<UniqueF, Option(FALSE, TRUE)>>,
      <<TwoKeys, Option(FALSE, FALSE)>>, <<UniqueNoIndex, Option(FALSE, FALSE)>> }

\* BoxDB.meta
meta(name, inKey, outKey, index, force) ==
    [name |-> name, inKey |-> inKey, outKey |-> outKey, index |-> index, force |-> force]

\* The reduce() of toMeta over the entries 1..n of the scheme: the in-line key,
\* the index list and the error thrown, if any.
RECURSIVE toMetaReduce(_, _, _)
toMetaReduce(storeName, scheme, n) ==
    IF n = 0
    THEN [primaryKeyPath |-> NoKey, indexList |-> <<>>, error |-> NoError]
    ELSE LET prev == toMetaReduce(storeName, scheme, n - 1)
             type == scheme[n]
         IN  IF prev.error # NoError THEN prev
             ELSE IF ~type.configured THEN prev
             ELSE IF type.key /\ prev.primaryKeyPath # NoKey
                  THEN [prev EXCEPT !.error = "Cannot define mutiple in-line-key"]
             ELSE IF type.unique /\ ~type.index
                  THEN [prev EXCEPT !.error = "unique option requires index option"]
             ELSE [prev EXCEPT
                     !.primaryKeyPath = IF type.key THEN type.field ELSE @,
                     !.indexList = IF type.index
                                   THEN Append(@, [keyPath |-> type.field,
                                                   unique |-> type.unique])
                                   ELSE @]

\* BoxDB.toMeta: [error, meta]
toMeta(storeName, scheme, options) ==
    LET r == toMetaReduce(storeName, scheme, Len(scheme))
    IN  [error |-> r.error,
         meta  |-> meta(storeName, r.primaryKeyPath, options.autoIncrement,
                        r.indexList, options.force)]

\* ------------------------------------------------------------------- engine
\* An object store of the engine: its key configuration, its indexes (an index
\* is created under the name of its keyPath) and the keys of its records.
NoStore ==
    [live |-> FALSE, keyPath |-> NoKey, autoIncrement |-> FALSE, indexes |-> {},
     records |-> {}]

Edit(op, store, keyPath, unique) ==
    [op |-> op, store |-> store, keyPath |-> keyPath, unique |-> unique]

\* The structural primitives of the upgrade transaction.  u is the state of the
\* running update(): the stores as edited so far, the calls issued so far, the
\* exception thrown (if any) and update's local array objectStoreNames.
deleteObjectStore(u, name) ==
    LET issued == [u EXCEPT !.edits = Append(@, Edit("deleteObjectStore", name, NoKey, FALSE))]
    IN  IF ~u.db[name].live
        THEN [issued EXCEPT !.error = "NotFoundError"]
        ELSE [issued EXCEPT !.db[name] = NoStore]

createObjectStore(u, name, keyPath, autoIncrement) ==
    LET issued == [u EXCEPT !.edits = Append(@, Edit("createObjectStore", name, keyPath, FALSE))]
    IN  IF u.db[name].live
        THEN [issued EXCEPT !.error = "ConstraintError"]
        ELSE [issued EXCEPT !.db[name] =
                [live |-> TRUE, keyPath |-> keyPath, autoIncrement |-> autoIncrement,
                 indexes |-> {}, records |-> {}]]

createIndex(u, name, keyPath, unique) ==
    LET issued == [u EXCEPT !.edits = Append(@, Edit("createIndex", name, keyPath, unique))]
    IN  IF ~u.db[name].live
        THEN [issued EXCEPT !.error = "InvalidStateError"]
        ELSE IF \E i \in u.db[name].indexes : i.keyPath = keyPath
        THEN [issued EXCEPT !.error = "ConstraintError"]
        ELSE [issued EXCEPT !.db[name].indexes =
                @ \cup {[keyPath |-> keyPath, unique |-> unique]}]

deleteIndex(u, name, keyPath) ==
    LET issued == [u EXCEPT !.edits = Append(@, Edit("deleteIndex", name, keyPath, FALSE))]
    IN  IF ~u.db[name].live
        THEN [issued EXCEPT !.error = "InvalidStateError"]
        ELSE IF ~\E i \in u.db[name].indexes : i.keyPath = keyPath
        THEN [issued EXCEPT !.error = "NotFoundError"]
        ELSE [issued EXCEPT !.db[name].indexes = {i \in @ : i.keyPath # keyPath}]

\* Array.from(db.objectStoreNames): the live store names, sorted.
liveStoreNames(db) == SelectSeq(StoreNames, LAMBDA n : db[n].live)

\* Array.from(objectStore.indexNames).map(...): the live indexes, sorted by name.
liveIndexes(store) ==
    LET present == SelectSeq(FieldNames, LAMBDA f : \E i \in store.indexes : i.keyPath = f)
    IN  [k \in 1..Len(present) |->
            CHOOSE i \in store.indexes : i.keyPath = present[k]]

\* BoxDB.convert: IDBObjectStore to BoxModelMeta
convert(name, store) ==
    meta(name, store.keyPath, store.autoIncrement, liveIndexes(store), FALSE)

\* ---------------------------------------------------------------- update()
\* Object.keys(this.metas): the registered names, in registration order.
modelStoreNames(ms) == [i \in 1..Len(ms) |-> ms[i].name]

\* getBoxMeta = (name) => this.metas[name]
getBoxMeta(ms, name) == ms[CHOOSE i \in 1..Len(ms) : ms[i].name = name]

throw(u, message) == [u EXCEPT !.error = message]

\* objectStoreNames.splice(idx, 1), idx counted from 1 here
splice(names, idx) == [i \in 1..(Len(names) - 1) |-> IF i < idx THEN names[i] ELSE names[i + 1]]

\* (1/3) Update unique option of index: objectStoreMeta.index.forEach, from
\* element k on.  A live unique index declared non-unique is deleted and created
\* again; a live non-unique index declared unique throws.
RECURSIVE updateUnique(_, _, _, _, _)
updateUnique(u, name, idbIndex, index, k) ==
    IF k > Len(idbIndex) \/ u.error # NoError THEN u
    ELSE LET objectStoreIndex == idbIndex[k]
             originKeyPath == objectStoreIndex.keyPath
             found == {i \in 1..Len(index) : index[i].keyPath = originKeyPath}
         IN  IF found = {} THEN updateUnique(u, name, idbIndex, index, k + 1)
             ELSE LET modelIndex == index[CHOOSE i \in found : \A j \in found : i <= j]
                  IN  IF objectStoreIndex.unique = modelIndex.unique
                      THEN updateUnique(u, name, idbIndex, index, k + 1)
                      ELSE IF objectStoreIndex.unique = TRUE
                      THEN LET d == deleteIndex(u, name, originKeyPath)
                               c == IF d.error # NoError THEN d
                                    ELSE createIndex(d, name, originKeyPath, modelIndex.unique)
                           IN  updateUnique(c, name, idbIndex, index, k + 1)
                      ELSE throw(u, "Unique option cannot be changed to true")

\* (2/3) Delete index if index not found in scheme of target model:
\* idbKeyPaths.forEach, from element k on.
RECURSIVE deleteIndexes(_, _, _, _, _)
deleteIndexes(u, name, idbKeyPaths, modelKeyPaths, k) ==
    IF k > Len(idbKeyPaths) \/ u.error # NoError THEN u
    ELSE deleteIndexes(
            IF idbKeyPaths[k] \notin Range(modelKeyPaths)
            THEN deleteIndex(u, name, idbKeyPaths[k])
            ELSE u,
            name, idbKeyPaths, modelKeyPaths, k + 1)

\* (3/3) Create new index if index not exist in object store: index.forEach,
\* from element k on.
RECURSIVE createIndexes(_, _, _, _, _)
createIndexes(u, name, idbKeyPaths, index, k) ==
    IF k > Len(index) \/ u.error # NoError THEN u
    ELSE createIndexes(
            IF index[k].keyPath \notin Range(idbKeyPaths)
            THEN createIndex(u, name, index[k].keyPath, index[k].unique)
            ELSE u,
            name, idbKeyPaths, index, k + 1)

\* updateIndexes with the test of pass (2/3) inverted: the indexes that ARE
\* declared get deleted.
updateIndexesDeletingDeclared(u, name, objectStoreMeta, index) ==
    LET idbKeyPaths   == [i \in 1..Len(objectStoreMeta.index) |-> objectStoreMeta.index[i].keyPath]
        modelKeyPaths == [i \in 1..Len(index) |-> index[i].keyPath]
        undeclared    == SelectSeq(idbKeyPaths, LAMBDA k : k \notin Range(modelKeyPaths))
        u1 == updateUnique(u, name, objectStoreMeta.index, index, 1)
        u2 == deleteIndexes(u1, name, idbKeyPaths, undeclared, 1)
    IN  createIndexes(u2, name, idbKeyPaths, index, 1)

\* The three index passes on a store that is live, registered and not forced.
updateIndexes(u, name, objectStoreMeta, index) ==
    LET idbKeyPaths   == [i \in 1..Len(objectStoreMeta.index) |-> objectStoreMeta.index[i].keyPath]
        modelKeyPaths == [i \in 1..Len(index) |-> index[i].keyPath]
        u1 == updateUnique(u, name, objectStoreMeta.index, index, 1)
        u2 == deleteIndexes(u1, name, idbKeyPaths, modelKeyPaths, 1)
    IN  createIndexes(u2, name, idbKeyPaths, index, 1)

\* The callback of forEach taking the force branch for every registered store.
updateStoreForcingAll(u, ms, name, idx) ==
    IF name \in Range(modelStoreNames(ms))
    THEN LET d == deleteObjectStore(u, name)
         IN  IF d.error # NoError THEN d
             ELSE [d EXCEPT !.objectStoreNames = splice(@, idx)]
    ELSE deleteObjectStore(u, name)

\* The callback of objectStoreNames.forEach((name, idx) => ...).
updateStore(u, ms, name, idx) ==
    IF name \in Range(modelStoreNames(ms))
    THEN LET m == getBoxMeta(ms, name)
             objectStoreMeta == convert(name, u.db[name])
         IN  IF m.force
             THEN LET d == deleteObjectStore(u, name)
                  IN  IF d.error # NoError THEN d
                      ELSE [d EXCEPT !.objectStoreNames = splice(@, idx)]
             ELSE IF objectStoreMeta.inKey # m.inKey
             THEN throw(u, "In-line-key cannot be changed")
             ELSE IF objectStoreMeta.outKey # m.outKey
             THEN throw(u, "Out-of-line-key cannot be changed")
             ELSE updateIndexes(u, name, objectStoreMeta, m.index)
    ELSE deleteObjectStore(u, name)

\* objectStoreNames.forEach from index idx on.  forEach reads the length once
\* (len) and visits index idx only while the array still has it, so an element
\* that moved down after a splice is not visited.
RECURSIVE forEachStore(_, _, _, _)
forEachStore(u, ms, idx, len) ==
    IF idx > len \/ u.error # NoError THEN u
    ELSE IF idx > Len(u.objectStoreNames) THEN forEachStore(u, ms, idx + 1, len)
    ELSE forEachStore(updateStore(u, ms, u.objectStoreNames[idx], idx), ms, idx + 1, len)

\* index.forEach(({ keyPath, unique }) => objectStore.createIndex(...)) on a new store
RECURSIVE createAllIndexes(_, _, _, _)
createAllIndexes(u, name, index, k) ==
    IF k > Len(index) \/ u.error # NoError THEN u
    ELSE createAllIndexes(createIndex(u, name, index[k].keyPath, index[k].unique),
                          name, index, k + 1)

\* Create new object stores: the forEach over the filtered modelStoreNames.
RECURSIVE createStores(_, _, _, _)
createStores(u, ms, names, k) ==
    IF k > Len(names) \/ u.error # NoError THEN u
    ELSE LET m == getBoxMeta(ms, names[k])
             c == createObjectStore(u, names[k], m.inKey, m.outKey)
         IN  createStores(createAllIndexes(c, names[k], m.index, 1), ms, names, k + 1)

\* update() creating every registered store, without the filter on
\* objectStoreNames.
updateCreatingRegistered(db, ms) ==
    LET objectStoreNames == liveStoreNames(db)
        u0 == [db |-> db, edits |-> <<>>, error |-> NoError,
               objectStoreNames |-> objectStoreNames]
        u1 == forEachStore(u0, ms, 1, Len(objectStoreNames))
    IN  createStores(u1, ms, modelStoreNames(ms), 1)

\* BoxDB.update: reconcile the live stores db with the registry ms.  The result
\* holds the stores as edited, the structural calls issued, in order, and the
\* error thrown ("none" when update returns normally).
update(db, ms) ==
    LET objectStoreNames == liveStoreNames(db)
        u0 == [db |-> db, edits |-> <<>>, error |-> NoError,
               objectStoreNames |-> objectStoreNames]
        u1 == forEachStore(u0, ms, 1, Len(objectStoreNames))
        new == SelectSeq(modelStoreNames(ms),
                         LAMBDA n : n \notin Range(u1.objectStoreNames))
    IN  createStores(u1, ms, new, 1)

\* -------------------------------------------------------------------- state
VARIABLES
    version,     \* BoxDB.version: the version this instance opens
    metas,       \* BoxDB.metas: the registered models, in registration order
    ready,       \* BoxDB.ready
    request,     \* the IDBOpenDBRequest of open(): none, pending, upgraded, aborted, done
    promise,     \* the promise open() returned: none, pending, resolved or the rejection
    connection,  \* openRequest.result, the engine connection: none, open, closed
    dbVersion,   \* engine: the version of the stored database
    dbStores,    \* engine: the committed object stores
    upgrade,     \* record of the last run of the upgrade handler
    tx,          \* BoxTransaction: the batch in flight
    txPromise,   \* the promise transaction() / a model operation returned
    txIdb,       \* BoxTransaction: the connection init() handed it: none, open
    thrown,      \* the exception a call has thrown and its caller has not caught yet
    created,     \* the TransactionTask the last deferred ($) call returned
    other        \* engine: another page holds a connection to the database

vars == <<version, metas, ready, request, promise, connection,
          dbVersion, dbStores, upgrade, tx, txPromise, txIdb, thrown, created, other>>

StoreSet == Range(StoreNames)
Keys == 1..MaxKey
Versions == 1..MaxVersion

EmptyDb == [n \in StoreSet |-> NoStore]

\* No upgrade handler has run for the current open request.  The record keeps
\* what a run of the handler saw and did: the stores and the version before it,
\* the registry update() read (metas), the calls it issued, the exception it
\* threw, and how often it ran for this request (runs).
NoUpgrade ==
    [ran |-> FALSE, before |-> EmptyDb, beforeVersion |-> 0, edits |-> <<>>,
     error |-> NoError, metas |-> <<>>, runs |-> 0]

\* An exception on its way to the caller: the message and the call that threw.
Throw(error, call) == [error |-> error, call |-> call]
NoThrow == Throw(NoError, <<>>)

\* The promise of a batch: its state and, once rejected, the error and the
\* position of the task that failed.
Promise(state, error, task) == [state |-> state, error |-> error, task |-> task]
NoPromise == Promise("none", NoError, 0)

\* No function of a model was called for the batch (transaction() was).
NoCall == [op |-> "none", b |-> "none", args |-> <<>>]

\* No batch in flight.
NoTx ==
    [active |-> FALSE, submitted |-> <<>>, tasks |-> <<>>, pos |-> 0, scope |-> {},
     mode |-> "none", single |-> FALSE, opened |-> 0, before |-> EmptyDb,
     work |-> EmptyDb, log |-> <<>>, result |-> [kind |-> "void", value |-> <<>>],
     advanced |-> 0, call |-> NoCall]

\* The state after new BoxDB(databaseName, v) against a database that does not
\* exist yet (version 0, no stores).
Init ==
    /\ version \in Versions
    /\ metas = <<>>
    /\ ready = FALSE
    /\ request = "none"
    /\ promise = "none"
    /\ connection = "none"
    /\ dbVersion = 0
    /\ dbStores = EmptyDb
    /\ upgrade = NoUpgrade
    /\ tx = NoTx
    /\ txPromise = NoPromise
    /\ txIdb = "none"
    /\ thrown = NoThrow
    /\ created = <<>>
    /\ other = FALSE

\* ------------------------------------------------------------- operations
\* new BoxDB(databaseName, v): a fresh instance (a page load) over the same
\* stored database, once the previous instance holds no connection.
Construct(v) ==
    /\ thrown.error = NoError
    /\ ~ready
    /\ request \in {"none", "done"}
    /\ txPromise.state = "none"
    /\ version' = v
    /\ metas' = <<>>
    /\ ready' = FALSE
    /\ request' = "none"
    /\ promise' = "none"
    /\ connection' = "none"
    /\ upgrade' = NoUpgrade
    /\ tx' = NoTx
    /\ txPromise' = NoPromise
    /\ txIdb' = "none"
    /\ created' = <<>>
    /\ UNCHANGED <<dbVersion, dbStores, thrown, other>>

\* model() assigning this.metas[storeName] before toMeta has accepted the
\* scheme: the entry toMeta got to before it threw stays in the registry.
modelAssigningFirst(storeName, scheme, options) ==
    /\ thrown.error = NoError
    /\ txPromise.state = "none"
    /\ LET r == toMeta(storeName, scheme, options)
           call == <<"model", storeName>>
       IN  IF ready
           THEN /\ thrown' = Throw("Cannot define model after database opened", call)
                /\ UNCHANGED metas
           ELSE IF storeName \in Range(modelStoreNames(metas))
           THEN /\ thrown' = Throw("model already defined", call)
                /\ UNCHANGED metas
           ELSE /\ metas' = Append(metas, r.meta)
                /\ thrown' = IF r.error # NoError THEN Throw(r.error, call) ELSE thrown
    /\ UNCHANGED <<version, ready, request, promise, connection, dbVersion, dbStores,
                   upgrade, tx, txPromise, txIdb, created, other>>

\* BoxDB.model(storeName, scheme, options): throws when the database is ready,
\* when the name is already defined, or when toMeta refuses the scheme; else
\* assigns this.metas[storeName].  Only this.ready is consulted, so the call is
\* accepted at any other moment, an open() in flight included.
model(storeName, scheme, options) ==
    /\ thrown.error = NoError
    /\ txPromise.state = "none"
    /\ LET r == toMeta(storeName, scheme, options)
           call == <<"model", storeName>>
       IN  IF ready
           THEN /\ thrown' = Throw("Cannot define model after database opened", call)
                /\ UNCHANGED metas
           ELSE IF storeName \in Range(modelStoreNames(metas))
           THEN /\ thrown' = Throw("model already defined", call)
                /\ UNCHANGED metas
           ELSE IF r.error # NoError
           THEN /\ thrown' = Throw(r.error, call)
                /\ UNCHANGED metas
           ELSE /\ metas' = Append(metas, r.meta)
                /\ UNCHANGED thrown
    /\ UNCHANGED <<version, ready, request, promise, connection, dbVersion, dbStores,
                   upgrade, tx, txPromise, txIdb, created, other>>

\* The caller of a call that threw catches the exception.  Nothing else runs
\* while an exception propagates: every other step waits for this one.
caught ==
    /\ thrown.error # NoError
    /\ thrown' = NoThrow
    /\ UNCHANGED <<version, metas, ready, request, promise, connection, dbVersion,
                   dbStores, upgrade, tx, txPromise, txIdb, created, other>>

\* BoxDB.open(): self.indexedDB.open(this.name, this.version) and the promise
\* around it.  The handlers run later, as the engine fires its events.
open ==
    /\ thrown.error = NoError
    /\ request \in {"none", "done"}
    /\ ~ready
    /\ txPromise.state = "none"
    /\ request' = "pending"
    /\ promise' = "pending"
    /\ connection' = "none"
    /\ upgrade' = NoUpgrade
    /\ UNCHANGED <<version, metas, ready, dbVersion, dbStores, tx, txPromise,
                   txIdb, thrown, created, other>>

\* The message of the error onblocked rejects with.
BlockedError == "Can not upgrade because the database is already opened"

\* reject(e) of the open() promise: only the first settlement counts.
reject(p, e) == IF p = "pending" THEN e ELSE p
resolve(p) == IF p = "pending" THEN "resolved" ELSE p

\* openRequest.onupgradeneeded: the stored version is lower than the requested
\* one, so the engine starts the version-change transaction, with the new
\* version already set, and fires the event.  The handler runs update() and,
\* when it throws, catches the exception, closes the connection and rejects.
\* It never calls abort() and no exception leaves the handler, so the engine
\* lets the version-change transaction complete: the edits issued before the
\* throw and the new version are committed, and the request then fails.
onupgradeneeded ==
    /\ thrown.error = NoError
    /\ request \in {"pending", "blocked"}
    /\ dbVersion < version
    /\ ~other
    /\ LET u == update(dbStores, metas)
       IN  /\ upgrade' = [ran |-> TRUE, before |-> dbStores, beforeVersion |-> dbVersion,
                          edits |-> u.edits, error |-> u.error, metas |-> metas,
                          runs |-> upgrade.runs + 1]
           /\ dbStores' = u.db
           /\ dbVersion' = version
           /\ IF u.error = NoError
              THEN /\ request' = "upgraded"
                   /\ connection' = "open"
                   /\ UNCHANGED promise
              ELSE /\ request' = "aborted"
                   /\ connection' = "closed"
                   /\ promise' = reject(promise, u.error)
    /\ UNCHANGED <<version, metas, ready, tx, txPromise,
                   txIdb, thrown, created, other>>

\* onsuccess calling update() as well, once the database is open.
onsuccessUpdating ==
    /\ thrown.error = NoError
    /\ \/ request = "pending" /\ dbVersion = version
       \/ request = "upgraded"
    /\ LET u == update(dbStores, metas)
       IN  /\ upgrade' = [ran |-> TRUE, before |-> dbStores, beforeVersion |-> dbVersion,
                          edits |-> u.edits, error |-> u.error, metas |-> metas,
                          runs |-> upgrade.runs + 1]
           /\ dbStores' = u.db
    /\ ready' = TRUE
    /\ txIdb' = "open"
    /\ connection' = "open"
    /\ promise' = resolve(promise)
    /\ request' = "done"
    /\ UNCHANGED <<version, metas, dbVersion, tx, txPromise, thrown, created, other>>

\* openRequest.onsuccess: the engine opened the database at the requested
\* version, with or without an upgrade before.
onsuccess ==
    /\ thrown.error = NoError
    /\ \/ request = "pending" /\ dbVersion = version
       \/ request = "upgraded"
    /\ ready' = TRUE
    /\ txIdb' = "open"
    /\ connection' = "open"
    /\ promise' = resolve(promise)
    /\ request' = "done"
    /\ upgrade' = NoUpgrade
    /\ UNCHANGED <<version, metas, dbVersion, dbStores, tx, txPromise,
                   thrown, created, other>>

\* openRequest.onerror: the stored version is higher than the requested one, or
\* the connection was closed during the upgrade.
onerror ==
    /\ thrown.error = NoError
    /\ \/ request = "pending" /\ dbVersion > version
       \/ request = "aborted"
    /\ connection' = IF connection = "open" THEN "closed" ELSE connection
    /\ promise' = reject(promise, "error event")
    /\ request' = "done"
    /\ upgrade' = NoUpgrade
    /\ UNCHANGED <<version, metas, ready, dbVersion, dbStores, tx, txPromise,
                   txIdb, thrown, created, other>>

\* close() without the call of this.tx.close(): the coordinator keeps the
\* connection.
closeKeepingCoordinator ==
    /\ thrown.error = NoError
    /\ request \in {"none", "done"}
    /\ txPromise.state = "none"
    /\ IF ready
       THEN /\ ready' = FALSE
            /\ connection' = "closed"
            /\ UNCHANGED <<txIdb, thrown>>
       ELSE /\ thrown' = Throw("Database not ready", <<"close">>)
            /\ UNCHANGED <<txIdb, ready, connection>>
    /\ UNCHANGED <<version, metas, request, promise, dbVersion, dbStores, upgrade,
                   tx, txPromise, created, other>>

\* close() without the assignment this.ready = false.
closeStayingReady ==
    /\ thrown.error = NoError
    /\ request \in {"none", "done"}
    /\ txPromise.state = "none"
    /\ IF ready
       THEN /\ txIdb' = "none"
            /\ connection' = "closed"
            /\ UNCHANGED <<ready, thrown>>
       ELSE /\ thrown' = Throw("Database not ready", <<"close">>)
            /\ UNCHANGED <<txIdb, ready, connection>>
    /\ UNCHANGED <<version, metas, request, promise, dbVersion, dbStores, upgrade,
                   tx, txPromise, created, other>>

\* BoxDB.close(): on a ready database it closes the coordinator and the
\* connection and sets ready to false; else it throws 'Database not ready',
\* changing nothing.
close ==
    /\ thrown.error = NoError
    /\ request \in {"none", "done"}
    /\ txPromise.state = "none"
    /\ IF ready
       THEN /\ txIdb' = "none"
            /\ ready' = FALSE
            /\ connection' = "closed"
            /\ UNCHANGED thrown
       ELSE /\ thrown' = Throw("Database not ready", <<"close">>)
            /\ UNCHANGED <<txIdb, ready, connection>>
    /\ UNCHANGED <<version, metas, request, promise, dbVersion, dbStores, upgrade,
                   tx, txPromise, created, other>>

\* openRequest.onblocked: the open needs an upgrade and another connection to
\* the database stayed open after its versionchange event.  The handler
\* rejects the promise and does nothing else: the request stays in flight and
\* the engine goes on with it once the other connection is closed.
onblocked ==
    /\ thrown.error = NoError
    /\ request = "pending"
    /\ dbVersion < version
    /\ other
    /\ promise' = reject(promise, BlockedError)
    /\ request' = "blocked"
    /\ UNCHANGED <<version, metas, ready, connection, dbVersion, dbStores, upgrade,
                   tx, txPromise, txIdb, thrown, created, other>>

\* Engine: another page opens the stored database at its current version, and
\* closes its connection again (on the versionchange event, or when it unloads).
OtherOpens ==
    /\ thrown.error = NoError
    /\ request \in {"none", "done"}
    /\ dbVersion >= 1
    /\ ~other
    /\ other' = TRUE
    /\ UNCHANGED <<version, metas, ready, request, promise, connection, dbVersion,
                   dbStores, upgrade, tx, txPromise, txIdb, thrown, created>>

OtherCloses ==
    /\ thrown.error = NoError
    /\ other
    /\ other' = FALSE
    /\ UNCHANGED <<version, metas, ready, request, promise, connection, dbVersion,
                   dbStores, upgrade, tx, txPromise, txIdb, thrown, created>>

\* ------------------------------------------------------------ transactions
\* A TransactionTask(type, storeName, key), and a value that is no
\* TransactionTask (task instanceof TransactionTask is false).
TaskTypes == {"ADD", "PUT", "DELETE"}
TransactionTask(type, storeName, key) ==
    [isTask |-> TRUE, type |-> type, storeName |-> storeName, key |-> key]
NotATask == [isTask |-> FALSE, type |-> "none", storeName |-> "none", key |-> 0]

\* task instanceof TransactionTask
IsTransactionTask(task) == task.isTask

\* interrupt() returning a CLEAR task for store a.
interruptAsClear == TransactionTask("CLEAR", "a", 0)

\* BoxDB.interrupt(): new TransactionTask(TransactionType.INTERRUPT, null, null, null)
interrupt == TransactionTask("INTERRUPT", NoKey, 0)

Elements ==
    {TransactionTask(t, n, k) : t \in TaskTypes, n \in StoreSet, k \in Keys}
        \cup {NotATask, interrupt}
TaskLists == UNION {[1..n -> Elements] : n \in 1..MaxTasks}

Reverse(seq) == [i \in 1..Len(seq) |-> seq[Len(seq) + 1 - i]]

\* The result a task resolves with: nothing (void), a key, a record, a count or
\* a list of records.  A record is named by its key.
Result(kind, value) == [kind |-> kind, value |-> value]
NoResult == Result("void", <<>>)

\* The task kinds that only read: run() opens a read-only transaction for them.
ReadTypes == {"GET", "COUNT", "$GET"}

\* A key range of a cursor (IDBKeyRange.bound), or none.
KeyRange(lower, upper) == [defined |-> TRUE, lower |-> lower, upper |-> upper]
NoRange == [defined |-> FALSE, lower |-> 0, upper |-> 0]
InRange(key, range) ==
    ~range.defined \/ (range.lower <= key /\ key <= range.upper)

\* A filter function is named by the set of records it returns true for; a
\* record passes a filter list when every function of the list returns true.
Passes(key, filter) == \A i \in 1..Len(filter) : key \in filter[i]

\* The order in which a cursor meets the records: ascending by key ('next') or
\* descending ('prev').
RECURSIVE Ascending(_)
Ascending(keys) ==
    IF keys = {} THEN <<>>
    ELSE LET least == CHOOSE k \in keys : \A j \in keys : k <= j
         IN  <<least>> \o Ascending(keys \ {least})

cursorOrder(keys, direction) ==
    IF direction = "prev" THEN Reverse(Ascending(keys)) ELSE Ascending(keys)

\* limit undefined: get() was called without a limit.
NoLimit == 0

\* The cursor loop of a bulk operation: the cursor stands on record i of the
\* source; matched are the matching records met so far.  The loop stops when
\* the source is exhausted or, for a bulk get, when limit matches are collected.
RECURSIVE cursor(_, _, _, _)
cursor(source, task, i, matched) ==
    IF i > Len(source)
    THEN [matched |-> matched, advanced |-> Len(source)]
    ELSE LET now == IF Passes(source[i], task.filter)
                    THEN Append(matched, source[i]) ELSE matched
         IN  IF task.type = "$GET" /\ task.limit # NoLimit /\ Len(now) >= task.limit
             THEN [matched |-> now, advanced |-> i]
             ELSE cursor(source, task, i + 1, now)

\* Engine: one request on the records of a store.  add() fails with a
\* ConstraintError when the key exists; the other requests cannot fail.  The
\* bulk kinds open a cursor over the records in the range and walk it; an
\* INTERRUPT aborts the transaction.
Applied(records, result, advanced) ==
    [error |-> NoError, records |-> records, result |-> result, advanced |-> advanced]
Failed(records, error) ==
    [error |-> error, records |-> records, result |-> NoResult, advanced |-> 0]

applyTask(records, task) ==
    IF task.type = "ADD"
    THEN IF task.key \in records
         THEN Failed(records, "ConstraintError")
         ELSE Applied(records \cup {task.key}, Result("key", <<task.key>>), 0)
    ELSE IF task.type = "PUT"
    THEN Applied(records \cup {task.key}, NoResult, 0)
    ELSE IF task.type = "DELETE"
    THEN Applied(records \ {task.key}, NoResult, 0)
    ELSE IF task.type = "GET"
    THEN Applied(records, Result("record", IF task.key \in records
                                           THEN <<task.key>> ELSE <<>>), 0)
    ELSE IF task.type = "CLEAR"
    THEN Applied({}, NoResult, 0)
    ELSE IF task.type = "COUNT"
    THEN Applied(records, Result("count", <<Cardinality(records)>>), 0)
    ELSE IF task.type = "INTERRUPT"
    THEN Failed(records, "AbortError")
    ELSE LET source == cursorOrder({k \in records : InRange(k, task.range)},
                                   task.direction)
             c == cursor(source, task, 1, <<>>)
         IN  IF task.type = "$GET"
             THEN Applied(records, Result("records", c.matched), c.advanced)
             ELSE IF task.type = "$DELETE"
             THEN Applied(records \ Range(c.matched), NoResult, c.advanced)
             ELSE Applied(records, NoResult, c.advanced)

\* The batch a coordinator call starts: rejected at once when the coordinator
\* holds no connection (the database is not ready) or a store of the scope does
\* not exist, else one engine transaction over the stores the tasks name (an
\* INTERRUPT names none).  single = TRUE is run(), called for each task: a
\* transaction of its own per task, read-only for the kinds that only read.
startBatch(tasks, single) ==
    LET scope == {tasks[i].storeName :
                     i \in {j \in 1..Len(tasks) : tasks[j].type # "INTERRUPT"}}
    IN  IF txIdb # "open"
        THEN [tx |-> NoTx, promise |-> Promise("rejected", "Database not ready", 0)]
        ELSE IF \E n \in scope : ~dbStores[n].live
        THEN [tx |-> NoTx, promise |-> Promise("rejected", "NotFoundError", 0)]
        ELSE [tx |-> [active |-> TRUE, submitted |-> <<>>, tasks |-> tasks, pos |-> 1,
                      scope |-> scope,
                      mode |-> IF single /\ \A i \in 1..Len(tasks) :
                                                tasks[i].type \in ReadTypes
                               THEN "readonly" ELSE "readwrite",
                      single |-> single,
                      opened |-> 1, before |-> dbStores, work |-> dbStores,
                      log |-> <<>>, result |-> NoResult, advanced |-> 0,
                      call |-> NoCall],
              promise |-> Promise("pending", NoError, 0)]

\* BoxTransaction.runAll(tasks)
runAll(tasks) == startBatch(tasks, FALSE)

\* BoxTransaction.run(task) for each task of the list, one after the other
runEach(tasks) == startBatch(tasks, TRUE)

\* BoxTransaction.run(task)
run(task) == startBatch(<<task>>, TRUE)

\* transaction() handing the tasks to run() one by one instead of runAll().
transactionRunningEach(tasks) ==
    /\ thrown.error = NoError
    /\ request \in {"none", "done"}
    /\ txPromise.state = "none"
    /\ IF \A i \in 1..Len(tasks) : tasks[i].isTask
       THEN LET r == runEach(tasks)
            IN  /\ tx' = [r.tx EXCEPT !.submitted = tasks]
                /\ txPromise' = r.promise
                /\ UNCHANGED thrown
       ELSE /\ thrown' = Throw("Invalid elements", <<"transaction", tasks>>)
            /\ UNCHANGED <<tx, txPromise>>
    /\ created' = <<>>
    /\ UNCHANGED <<version, metas, ready, request, promise, connection, dbVersion,
                   dbStores, upgrade, txIdb, other>>

\* transaction() handing runAll() the tasks in reverse order.
transactionReversed(tasks) ==
    /\ thrown.error = NoError
    /\ request \in {"none", "done"}
    /\ txPromise.state = "none"
    /\ IF \A i \in 1..Len(tasks) : tasks[i].isTask
       THEN LET r == runAll(Reverse(tasks))
            IN  /\ tx' = [r.tx EXCEPT !.submitted = tasks]
                /\ txPromise' = r.promise
                /\ UNCHANGED thrown
       ELSE /\ thrown' = Throw("Invalid elements", <<"transaction", tasks>>)
            /\ UNCHANGED <<tx, txPromise>>
    /\ created' = <<>>
    /\ UNCHANGED <<version, metas, ready, request, promise, connection, dbVersion,
                   dbStores, upgrade, txIdb, other>>

\* transaction() dropping the elements that are no TransactionTask and handing
\* runAll() the others.
transactionSkippingInvalid(tasks) ==
    /\ thrown.error = NoError
    /\ request \in {"none", "done"}
    /\ txPromise.state = "none"
    /\ LET r == runAll(SelectSeq(tasks, IsTransactionTask))
       IN  /\ tx' = [r.tx EXCEPT !.submitted = tasks]
           /\ txPromise' = r.promise
    /\ created' = <<>>
    /\ UNCHANGED <<version, metas, ready, request, promise, connection, dbVersion,
                   dbStores, upgrade, txIdb, thrown, other>>

\* BoxDB.transaction(tasks): runAll(tasks) when every element is a
\* TransactionTask, else throws 'Invalid elements' (nothing is assigned).
\* tx.submitted records the list the caller passed.  The caller awaits the
\* promise of one batch before it submits the next; a task descriptor it got
\* from a $-function is used up by the call.
transaction(tasks) ==
    /\ thrown.error = NoError
    /\ request \in {"none", "done"}
    /\ txPromise.state = "none"
    /\ IF \A i \in 1..Len(tasks) : tasks[i].isTask
       THEN LET r == runAll(tasks)
            IN  /\ tx' = [r.tx EXCEPT !.submitted = tasks]
                /\ txPromise' = r.promise
                /\ UNCHANGED thrown
       ELSE /\ thrown' = Throw("Invalid elements", <<"transaction", tasks>>)
            /\ UNCHANGED <<tx, txPromise>>
    /\ created' = <<>>
    /\ UNCHANGED <<version, metas, ready, request, promise, connection, dbVersion,
                   dbStores, upgrade, txIdb, other>>

\* The engine runs the next task of the batch.  A task that fails aborts the
\* transaction: what the transaction wrote is dropped and the promise rejects
\* with the error of that task.
runTask ==
    /\ thrown.error = NoError
    /\ tx.active
    /\ tx.pos <= Len(tx.tasks)
    /\ LET task == tx.tasks[tx.pos]
           r == applyTask(IF task.type = "INTERRUPT" THEN {}
                          ELSE tx.work[task.storeName].records, task)
           work == [tx.work EXCEPT ![task.storeName].records = r.records]
       IN  IF r.error # NoError
           THEN /\ tx' = [tx EXCEPT !.active = FALSE, !.work = EmptyDb]
                /\ txPromise' = Promise("rejected", r.error, tx.pos)
                /\ UNCHANGED dbStores
           ELSE /\ tx' = [tx EXCEPT !.work = work, !.log = Append(@, task),
                                    !.pos = @ + 1,
                                    !.result = IF tx.single THEN r.result ELSE @,
                                    !.advanced = r.advanced,
                                    !.opened = IF tx.single /\ tx.pos < Len(tx.tasks)
                                               THEN @ + 1 ELSE @]
                /\ dbStores' = IF tx.single THEN work ELSE dbStores
                /\ UNCHANGED txPromise
    /\ UNCHANGED <<version, metas, ready, request, promise, connection, dbVersion,
                   upgrade,
                   txIdb, thrown, created, other>>

\* Every task of the batch completed: the engine commits the transaction and
\* the promise resolves.
commit ==
    /\ thrown.error = NoError
    /\ tx.active
    /\ tx.pos > Len(tx.tasks)
    /\ dbStores' = tx.work
    /\ tx' = [tx EXCEPT !.active = FALSE, !.work = EmptyDb]
    /\ txPromise' = Promise("resolved", NoError, 0)
    /\ UNCHANGED <<version, metas, ready, request, promise, connection, dbVersion,
                   upgrade,
                   txIdb, thrown, created, other>>

\* The caller's await of the batch returns (or throws): the settled batch is
\* dropped.
settled ==
    /\ thrown.error = NoError
    /\ txPromise.state \in {"resolved", "rejected"}
    /\ tx' = NoTx
    /\ txPromise' = NoPromise
    /\ UNCHANGED <<version, metas, ready, request, promise, connection, dbVersion,
                   dbStores, upgrade,
                   txIdb, thrown, created, other>>

\* The life cycle of instances over one stored database: registration, open
\* with its engine events, close.  Batches of tasks run under SpecTx below.
Next ==
    \/ \E v \in Versions : Construct(v)
    \/ \E n \in StoreSet, d \in Declarations : model(n, d[1], d[2])
    \/ open
    \/ onupgradeneeded
    \/ onsuccess
    \/ onerror
    \/ onblocked
    \/ close
    \/ caught
    \/ OtherOpens
    \/ OtherCloses

Spec == Init /\ [][Next]_vars

\* The declaration phase of an instance: the application registers its models
\* before it opens the database.
NextDeclare ==
    \/ \E v \in Versions : Construct(v)
    \/ \E n \in StoreSet, d \in Declarations : model(n, d[1], d[2])
    \/ caught

SpecDeclare == Init /\ [][NextDeclare]_vars

\* A database opened at version 1 with the models a and b registered: the state
\* after model("a", UniqueF), model("b", IndexF), open() and the upgrade, which
\* Spec reaches (InitTx is a reachable state of Spec).
TxMetas ==
    <<toMeta("a", UniqueF, Option(FALSE, FALSE)).meta,
      toMeta("b", IndexF, Option(FALSE, FALSE)).meta>>

InitTx ==
    /\ version = 1
    /\ metas = TxMetas
    /\ ready = TRUE
    /\ request = "done"
    /\ promise = "resolved"
    /\ connection = "open"
    /\ dbVersion = 1
    /\ dbStores = update(EmptyDb, TxMetas).db
    /\ upgrade = NoUpgrade
    /\ tx = NoTx
    /\ txPromise = NoPromise
    /\ txIdb = "open"
    /\ thrown = NoThrow
    /\ created = <<>>
    /\ other = FALSE

NextTx ==
    \/ txPromise.state = "none" /\ \E tasks \in TaskLists : transaction(tasks)
    \/ runTask
    \/ commit
    \/ settled
    \/ caught
    \/ close
    \/ open
    \/ onsuccess

\* The opened database under batches of tasks.
SpecTx == InitTx /\ [][NextTx]_vars

\* -------------------------------------------------------------------- boxes
\* The model (box) the operations below belong to: store a, declared with the
\* scheme { id: NUMBER, f: STRING } without in-line key, so that every record
\* is stored under the key the call passes.
BoxName == "a"
BoxSchema == NoInKey
BoxTypes == [id |-> "number", f |-> "string"]
BoxMetas == <<toMeta(BoxName, BoxSchema, Option(FALSE, FALSE)).meta>>
RecordKeys == 1..MaxRecord

\* A value handed to an operation: what it holds in each property, by the type
\* of the property value ("absent": the object has no such property;
\* "undefined": it has the property, with the value undefined).
Value(id, f, x) == [id |-> id, f |-> f, x |-> x]
NoValue == Value("absent", "absent", "absent")
BoxValues ==
    {Value("number", "string", "absent"), Value("number", "null", "absent"),
     Value("absent", "string", "absent"), Value("string", "string", "absent"),
     Value("number", "string", "number"), Value("number", "undefined", "absent"),
     NoValue}

\* Object.keys(target)
targetKeys(target) == {k \in DOMAIN target : target[k] # "absent"}
\* Object.keys(this.schema)
schemaKeys(schema) == {schema[i].field : i \in 1..Len(schema)}

\* typeValidator(type, value): true for null, a TypeError for undefined
\* (Object.getPrototypeOf(undefined) throws), else the prototype test.
typeValidator(type, value) ==
    IF value = "null" THEN "true"
    ELSE IF value \in {"absent", "undefined"} THEN "TypeError"
    ELSE IF type = "any" \/ value = type THEN "true" ELSE "false"

\* Object.entries(this.schema).every(([k, v]) => typeValidator(type of v, target[k]))
\* from entry i on: every() stops at the first false, a throw ends it.
RECURSIVE everyType(_, _, _)
everyType(schema, target, i) ==
    IF i > Len(schema) THEN "true"
    ELSE LET r == typeValidator(BoxTypes[schema[i].field], target[schema[i].field])
         IN  IF r = "true" THEN everyType(schema, target, i + 1) ELSE r

\* schemaValidator(target, strict): the error it throws, or NoError.
schemaValidator(schema, target, strict) ==
    LET samekeyLength ==
            ~strict \/ Cardinality(schemaKeys(schema)) = Cardinality(targetKeys(target))
        correctValueTypes == IF strict THEN everyType(schema, target, 1) ELSE "true"
    IN  IF correctValueTypes = "TypeError" THEN "TypeError"
        ELSE IF ~(/\ samekeyLength
                  /\ correctValueTypes = "true"
                  /\ targetKeys(target) \subseteq schemaKeys(schema))
        THEN "Data not valid"
        ELSE NoError

ValidationErrors == {"Data not valid", "TypeError"}

\* this.pass(value, strict)
pass(value, strict) == schemaValidator(BoxSchema, value, strict)

\* The two builders of the repository: BoxModelBuilder (core/model.ts, the one
\* BoxDB.model uses) and BoxBuilder.
Builders == {"BoxModelBuilder", "BoxBuilder"}

\* The arguments of createTask: value and key of a single operation, or
\* direction, filter list, range, limit and update value of a bulk one.
Args(value, key) ==
    [value |-> value, key |-> key, direction |-> "none", filter |-> <<>>,
     range |-> NoRange, limit |-> NoLimit, updateValue |-> NoValue]
Bulk(direction, filter, range, limit, updateValue) ==
    [value |-> NoValue, key |-> 0, direction |-> direction, filter |-> filter,
     range |-> range, limit |-> limit, updateValue |-> updateValue]
NoArgs == Args(NoValue, 0)

\* A call of a function of the box of builder b with the arguments the
\* application passed.
Call(op, b, args) == [op |-> op, b |-> b, args |-> args]

\* createTask(type, storeName, args): the TransactionTask of the call.
createTask(type, storeName, args) ==
    [isTask |-> TRUE, type |-> type, storeName |-> storeName, key |-> args.key,
     value |-> args.value, direction |-> args.direction, filter |-> args.filter,
     range |-> args.range, limit |-> args.limit, updateValue |-> args.updateValue]

\* The filter functions of the application: key > n and key < n.
Predicates ==
    {{k \in RecordKeys : k > n} : n \in RecordKeys}
        \cup {{k \in RecordKeys : k < n} : n \in RecordKeys}
Filters == {<<>>} \cup {<<p>> : p \in Predicates} \cup (Predicates \X Predicates)
Ranges == {NoRange} \cup {KeyRange(l, u) : l \in RecordKeys, u \in RecordKeys}
Orders == {"none", "next", "prev"}
Limits == {NoLimit} \cup RecordKeys

\* The application is at a point where it calls the box: no operation is in
\* flight and no task descriptor waits for its transaction().
BoxIdle ==
    /\ thrown.error = NoError
    /\ request \in {"none", "done"}
    /\ txPromise.state = "none"
    /\ created = <<>>

\* The frame of a call of a function of the box: it touches the coordinator
\* and the task descriptors only.
BoxFrame ==
    UNCHANGED <<version, metas, ready, request, promise, connection, dbVersion,
                dbStores, upgrade, txIdb, other>>

\* The application calls a function of the handler: it awaits the promise of
\* one operation before it calls the next.
BoxCall ==
    /\ thrown.error = NoError
    /\ request \in {"none", "done"}
    /\ txPromise.state = "none"
    /\ BoxFrame

\* The application calls a $-function: it has handed the task descriptor of
\* the last one to transaction().
TaskCall ==
    /\ thrown.error = NoError
    /\ request \in {"none", "done"}
    /\ created = <<>>
    /\ BoxFrame

\* The validator threw: the call ends with the error.
threw(call, error) ==
    /\ thrown' = Throw(error, call)
    /\ UNCHANGED <<tx, txPromise, created>>

\* transactionExecuter / this.tx.run(createTask(...)): the promise returned is
\* the promise of run().  tx.call records the function called and the
\* arguments the application passed.
transactionExecuter(op, b, args, task) ==
    LET r == run(task)
    IN  /\ tx' = [r.tx EXCEPT !.submitted = <<task>>, !.call = Call(op, b, args)]
        /\ txPromise' = r.promise
        /\ UNCHANGED <<thrown, created>>

\* A $-function returns the task descriptor; created keeps it with the call
\* that made it.
returned(op, b, args, task) ==
    /\ created' = <<[task |-> task, call |-> Call(op, b, args)]>>
    /\ UNCHANGED <<tx, txPromise, thrown>>

\* add() without the call of this.pass(value).
addUnchecked(b, value, key) ==
    /\ BoxCall
    /\ transactionExecuter("add", b, Args(value, key),
                           createTask("ADD", BoxName, Args(value, key)))

add(b, value, key) ==
    /\ BoxCall
    /\ IF pass(value, TRUE) # NoError
       THEN threw(<<"add", b, value>>, pass(value, TRUE))
       ELSE transactionExecuter("add", b, Args(value, key),
                                createTask("ADD", BoxName, Args(value, key)))

get(b, key) ==
    /\ BoxCall
    /\ transactionExecuter("get", b, Args(NoValue, key),
                           createTask("GET", BoxName, Args(NoValue, key)))

\* BoxModelBuilder: this.pass(value); BoxBuilder: this.pass(value, false).
put(b, value, key) ==
    /\ BoxCall
    /\ LET strict == (b = "BoxModelBuilder")
       IN  IF pass(value, strict) # NoError
           THEN threw(<<"put", b, value>>, pass(value, strict))
           ELSE transactionExecuter("put", b, Args(value, key),
                                    createTask("PUT", BoxName, Args(value, key)))

delete(b, key) ==
    /\ BoxCall
    /\ transactionExecuter("delete", b, Args(NoValue, key),
                           createTask("DELETE", BoxName, Args(NoValue, key)))

\* query(range) is a function of BoxBuilder only.
query_get(range, order, limit) ==
    /\ BoxCall
    /\ LET args == Bulk(order, <<>>, range, limit, NoValue)
       IN  transactionExecuter("query.get", "BoxBuilder", args, createTask("$GET", BoxName, args))

query_update(range, value) ==
    /\ BoxCall
    /\ LET args == Bulk("none", <<>>, range, NoLimit, value)
       IN  IF pass(value, FALSE) # NoError
           THEN threw(<<"query.update", "BoxBuilder", value>>, pass(value, FALSE))
           ELSE transactionExecuter("query.update", "BoxBuilder", args,
                                    createTask("$UPDATE", BoxName, args))

query_delete(range) ==
    /\ BoxCall
    /\ LET args == Bulk("none", <<>>, range, NoLimit, NoValue)
       IN  transactionExecuter("query.delete", "BoxBuilder", args, createTask("$DELETE", BoxName, args))

\* find(...).get() handing createTask no limit.
find_getUnlimited(b, filter, order, limit) ==
    /\ BoxCall
    /\ LET args == Bulk(order, filter, NoRange, limit, NoValue)
       IN  transactionExecuter("find.get", b, args,
                               createTask("$GET", BoxName, [args EXCEPT !.limit = NoLimit]))

find_get(b, filter, order, limit) ==
    /\ BoxCall
    /\ LET args == Bulk(order, filter, NoRange, limit, NoValue)
       IN  transactionExecuter("find.get", b, args, createTask("$GET", BoxName, args))

\* BoxBuilder hands createTask the update value, BoxModelBuilder does not.
find_update(b, filter, value) ==
    /\ BoxCall
    /\ LET args == Bulk("none", filter, NoRange, NoLimit, value)
       IN  IF pass(value, FALSE) # NoError
           THEN threw(<<"find.update", b, value>>, pass(value, FALSE))
           ELSE transactionExecuter(
                    "find.update", b, args,
                    createTask("$UPDATE", BoxName,
                               IF b = "BoxBuilder" THEN args
                               ELSE [args EXCEPT !.updateValue = NoValue]))

\* find(...).delete() handing createTask no filter.
find_deleteUnfiltered(b, filter) ==
    /\ BoxCall
    /\ LET args == Bulk("none", filter, NoRange, NoLimit, NoValue)
       IN  transactionExecuter("find.delete", b, args,
                               createTask("$DELETE", BoxName, [args EXCEPT !.filter = <<>>]))

find_delete(b, filter) ==
    /\ BoxCall
    /\ LET args == Bulk("none", filter, NoRange, NoLimit, NoValue)
       IN  transactionExecuter("find.delete", b, args, createTask("$DELETE", BoxName, args))

clear(b) ==
    /\ BoxCall
    /\ transactionExecuter("clear", b, NoArgs, createTask("CLEAR", BoxName, NoArgs))

count(b) ==
    /\ BoxCall
    /\ transactionExecuter("count", b, NoArgs, createTask("COUNT", BoxName, NoArgs))

\* The $-functions: the same checks, and the task is returned instead of run.
task_add(b, value, key) ==
    /\ TaskCall
    /\ IF pass(value, TRUE) # NoError
       THEN threw(<<"$add", b, value>>, pass(value, TRUE))
       ELSE returned("add", b, Args(value, key),
                     createTask("ADD", BoxName, Args(value, key)))

\* $put() with the strict call of this.pass(value), whatever the builder.
task_putStrict(b, value, key) ==
    /\ TaskCall
    /\ IF pass(value, TRUE) # NoError
       THEN threw(<<"$put", b, value>>, pass(value, TRUE))
       ELSE returned("put", b, Args(value, key),
                     createTask("PUT", BoxName, Args(value, key)))

task_put(b, value, key) ==
    /\ TaskCall
    /\ LET strict == (b = "BoxModelBuilder")
       IN  IF pass(value, strict) # NoError
           THEN threw(<<"$put", b, value>>, pass(value, strict))
           ELSE returned("put", b, Args(value, key),
                         createTask("PUT", BoxName, Args(value, key)))

task_delete(b, key) ==
    /\ TaskCall
    /\ returned("delete", b, Args(NoValue, key),
                createTask("DELETE", BoxName, Args(NoValue, key)))

task_query_update(range, value) ==
    /\ TaskCall
    /\ LET args == Bulk("none", <<>>, range, NoLimit, value)
       IN  IF pass(value, FALSE) # NoError
           THEN threw(<<"$query.update", "BoxBuilder", value>>, pass(value, FALSE))
           ELSE returned("query.update", "BoxBuilder", args,
                         createTask("$UPDATE", BoxName, args))

task_query_delete(range) ==
    /\ TaskCall
    /\ LET args == Bulk("none", <<>>, range, NoLimit, NoValue)
       IN  returned("query.delete", "BoxBuilder", args,
                    createTask("$DELETE", BoxName, args))

task_find_update(b, filter, value) ==
    /\ TaskCall
    /\ LET args == Bulk("none", filter, NoRange, NoLimit, value)
       IN  IF pass(value, FALSE) # NoError
           THEN threw(<<"$find.update", b, value>>, pass(value, FALSE))
           ELSE returned("find.update", b, args,
                         createTask("$UPDATE", BoxName,
                                    IF b = "BoxBuilder" THEN args
                                    ELSE [args EXCEPT !.updateValue = NoValue]))

task_find_delete(b, filter) ==
    /\ TaskCall
    /\ LET args == Bulk("none", filter, NoRange, NoLimit, NoValue)
       IN  returned("find.delete", b, args, createTask("$DELETE", BoxName, args))

\* An instance with the box registered and the database not yet opened: the
\* state after new BoxDB(name, 1) and model("a", BoxSchema), which Spec reaches.
InitBox ==
    /\ version = 1
    /\ metas = BoxMetas
    /\ ready = FALSE
    /\ request = "none"
    /\ promise = "none"
    /\ connection = "none"
    /\ dbVersion = 0
    /\ dbStores = EmptyDb
    /\ upgrade = NoUpgrade
    /\ tx = NoTx
    /\ txPromise = NoPromise
    /\ txIdb = "none"
    /\ thrown = NoThrow
    /\ created = <<>>
    /\ other = FALSE

NextBox ==
    \/ BoxIdle /\ \E b \in Builders, value \in BoxValues, key \in RecordKeys : add(b, value, key)
    \/ BoxIdle /\ \E b \in Builders, key \in RecordKeys : get(b, key)
    \/ BoxIdle /\ \E b \in Builders, value \in BoxValues, key \in RecordKeys : put(b, value, key)
    \/ BoxIdle /\ \E b \in Builders, key \in RecordKeys : delete(b, key)
    \/ BoxIdle /\ \E range \in Ranges, order \in Orders, limit \in Limits :
           query_get(range, order, limit)
    \/ BoxIdle /\ \E range \in Ranges, value \in BoxValues : query_update(range, value)
    \/ BoxIdle /\ \E range \in Ranges : query_delete(range)
    \/ BoxIdle /\ \E b \in Builders, filter \in Filters, order \in Orders, limit \in Limits :
           find_get(b, filter, order, limit)
    \/ BoxIdle /\ \E b \in Builders, filter \in Filters, value \in BoxValues :
           find_update(b, filter, value)
    \/ BoxIdle /\ \E b \in Builders, filter \in Filters : find_delete(b, filter)
    \/ BoxIdle /\ \E b \in Builders : clear(b)
    \/ BoxIdle /\ \E b \in Builders : count(b)
    \/ BoxIdle /\ \E b \in Builders, value \in BoxValues, key \in RecordKeys : task_add(b, value, key)
    \/ BoxIdle /\ \E b \in Builders, value \in BoxValues, key \in RecordKeys : task_put(b, value, key)
    \/ BoxIdle /\ \E b \in Builders, key \in RecordKeys : task_delete(b, key)
    \/ BoxIdle /\ \E range \in Ranges, value \in BoxValues : task_query_update(range, value)
    \/ BoxIdle /\ \E range \in Ranges : task_query_delete(range)
    \/ BoxIdle /\ \E b \in Builders, filter \in Filters, value \in BoxValues :
           task_find_update(b, filter, value)
    \/ BoxIdle /\ \E b \in Builders, filter \in Filters : task_find_delete(b, filter)
    \/ created # <<>> /\ txPromise.state = "none" /\ transaction(<<created[1].task>>)
    \/ runTask
    \/ commit
    \/ settled
    \/ caught
    \/ open
    \/ onupgradeneeded
    \/ onsuccess
    \/ close

\* One box under the operations of its handler and its $-functions.
SpecBox == InitBox /\ [][NextBox]_vars

\* The arguments of the calls compared below: every value, one key, no filter
\* or one, no range or one.
PairKeys == {1}
PairFilters == {<<>>, <<{k \in RecordKeys : k > 1}>>}
PairRanges == {NoRange, KeyRange(1, 1)}

\* The functions that exist both in the handler and as a $-function, called in
\* any order: a $-function is called while the task of a handler call is still
\* held by the coordinator, and a handler while a task descriptor is kept.
NextPair ==
    \/ \E b \in Builders, value \in BoxValues, key \in PairKeys : add(b, value, key)
    \/ \E b \in Builders, value \in BoxValues, key \in PairKeys : put(b, value, key)
    \/ \E b \in Builders, key \in PairKeys : delete(b, key)
    \/ \E range \in PairRanges, value \in BoxValues : query_update(range, value)
    \/ \E range \in PairRanges : query_delete(range)
    \/ \E b \in Builders, filter \in PairFilters, value \in BoxValues :
           find_update(b, filter, value)
    \/ \E b \in Builders, filter \in PairFilters : find_delete(b, filter)
    \/ \E b \in Builders, value \in BoxValues, key \in PairKeys : task_add(b, value, key)
    \/ \E b \in Builders, value \in BoxValues, key \in PairKeys : task_put(b, value, key)
    \/ \E b \in Builders, key \in PairKeys : task_delete(b, key)
    \/ \E range \in PairRanges, value \in BoxValues : task_query_update(range, value)
    \/ \E range \in PairRanges : task_query_delete(range)
    \/ \E b \in Builders, filter \in PairFilters, value \in BoxValues :
           task_find_update(b, filter, value)
    \/ \E b \in Builders, filter \in PairFilters : task_find_delete(b, filter)
    \/ created # <<>> /\ txPromise.state = "none" /\ transaction(<<created[1].task>>)
    \/ runTask
    \/ commit
    \/ settled
    \/ caught
    \/ open
    \/ onupgradeneeded
    \/ onsuccess

\* One box under the functions its handler and its $-functions share.
SpecPair == InitBox /\ [][NextPair]_vars

\* ------------------------------------------------- reading the upgrade record
\* The structure of the stores: everything but the records.
Structure(db) ==
    [n \in StoreSet |-> [live |-> db[n].live, keyPath |-> db[n].keyPath,
                         autoIncrement |-> db[n].autoIncrement,
                         indexes |-> db[n].indexes]]

LiveNames(db) == {n \in StoreSet : db[n].live}
\* The registry update() read: the models registered when the handler ran.
Registered == Range(modelStoreNames(upgrade.metas))
DeclaredIndexes(m) == Range(m.index)

DefinitionErrors ==
    {"In-line-key cannot be changed", "Out-of-line-key cannot be changed",
     "Unique option cannot be changed to true"}

\* The upgrade handler has just run update(), and update returned / threw.
Reconciled == upgrade.ran /\ upgrade.error = NoError
ReconcileFailed == upgrade.ran /\ upgrade.error # NoError

\* Store n was live before the upgrade and is registered with / without force.
LiveRegistered(n) == upgrade.before[n].live /\ n \in Registered
LiveForced(n) == LiveRegistered(n) /\ getBoxMeta(upgrade.metas, n).force
LiveKept(n) == LiveRegistered(n) /\ ~getBoxMeta(upgrade.metas, n).force

\* The calls issued contain e1 and, later, e2.
IssuedInOrder(e1, e2) ==
    \E i, j \in 1..Len(upgrade.edits) :
        i < j /\ upgrade.edits[i] = e1 /\ upgrade.edits[j] = e2

\* The live structure before the upgrade agrees with the registry: the same
\* names, no force, the same key configuration, the same indexes.
Matching ==
    /\ LiveNames(upgrade.before) = Registered
    /\ \A n \in Registered :
          LET m == getBoxMeta(upgrade.metas, n)
              s == upgrade.before[n]
          IN  /\ ~m.force
              /\ s.keyPath = m.inKey
              /\ s.autoIncrement = m.outKey
              /\ s.indexes = DeclaredIndexes(m)

\* -------------------------------------------------------------------- claims
\* C1: when update throws during open(), the promise rejects and the structure
\* of the stores and the database version are what they were before open().
C1_FailedUpgradeLeavesDatabaseAsBefore ==
    ReconcileFailed =>
        /\ promise \notin {"none", "pending", "resolved"}
        /\ Structure(dbStores) = Structure(upgrade.before)
        /\ dbVersion = upgrade.beforeVersion

\* C2: after a reconciliation that completes without error the live store names
\* are exactly the registered model names.
C2_LiveStoresAreRegisteredModels ==
    Reconciled => LiveNames(dbStores) = Registered

\* C3: after a reconciliation that completes without error every store that is
\* live and registered has exactly the declared indexes, as (keyPath, unique)
\* pairs.
C3_LiveIndexesAreDeclaredIndexes ==
    Reconciled =>
        \A n \in StoreSet :
            (dbStores[n].live /\ n \in Registered)
                => dbStores[n].indexes = DeclaredIndexes(getBoxMeta(upgrade.metas, n))

\* C4: idempotence.  When the live structure agrees with the registry (same
\* names, no force, same key path and auto-increment flag, same indexes),
\* reconciliation returns normally and issues no structural call.
C4_MatchingStructureNoEdits ==
    (upgrade.ran /\ Matching) => (upgrade.edits = <<>> /\ upgrade.error = NoError)

\* C4 witness: a non-empty registry with indexes was reconciled against a
\* matching live structure.
C4_Witness ==
    /\ upgrade.ran
    /\ Matching
    /\ Registered = StoreSet
    /\ \E n \in Registered : Len(getBoxMeta(upgrade.metas, n).index) = 2

\* C5: key immutability.  A store that is live and registered without force,
\* whose registered key path or auto-increment flag differs from the live one,
\* makes reconciliation fail with a definition error and keeps its structure.
C5_KeyChangeFailsAndKeepsStore ==
    upgrade.ran =>
        \A n \in StoreSet :
            ( /\ LiveKept(n)
              /\ \/ upgrade.before[n].keyPath # getBoxMeta(upgrade.metas, n).inKey
                 \/ upgrade.before[n].autoIncrement # getBoxMeta(upgrade.metas, n).outKey )
            => /\ upgrade.error \in DefinitionErrors
               /\ Structure(dbStores)[n] = Structure(upgrade.before)[n]

\* C6: unique-index transition on a store that is live and registered without
\* force.  An index that is unique live and declared non-unique is deleted and
\* created again with unique = FALSE, the records of the store untouched (when
\* the pass completes, the index is non-unique); an index that is non-unique
\* live and declared unique makes reconciliation fail with a definition error.
C6_UniqueTransition ==
    upgrade.ran =>
        \A n \in StoreSet : LiveKept(n) =>
            \A i \in upgrade.before[n].indexes :
            \A j \in DeclaredIndexes(getBoxMeta(upgrade.metas, n)) :
                (i.keyPath = j.keyPath) =>
                    /\ (i.unique /\ ~j.unique /\ upgrade.error = NoError) =>
                          /\ IssuedInOrder(Edit("deleteIndex", n, i.keyPath, FALSE),
                                           Edit("createIndex", n, i.keyPath, FALSE))
                          /\ [keyPath |-> i.keyPath, unique |-> FALSE] \in dbStores[n].indexes
                          /\ dbStores[n].records = upgrade.before[n].records
                    /\ (~i.unique /\ j.unique) => upgrade.error \in DefinitionErrors

\* C7: force flag.  A live store registered with force = TRUE is deleted and then
\* created again in the same reconciliation, with the declared key configuration
\* and exactly the declared indexes, and without its records.
C7_ForcedStoreRecreated ==
    Reconciled =>
        \A n \in StoreSet : LiveForced(n) =>
            LET m == getBoxMeta(upgrade.metas, n)
            IN  /\ IssuedInOrder(Edit("deleteObjectStore", n, NoKey, FALSE),
                                 Edit("createObjectStore", n, m.inKey, FALSE))
                /\ dbStores[n].live
                /\ dbStores[n].keyPath = m.inKey
                /\ dbStores[n].autoIncrement = m.outKey
                /\ dbStores[n].indexes = DeclaredIndexes(m)
                /\ dbStores[n].records = {}

\* C8: fail-fast without undo.  Whenever reconciliation throws a definition
\* error, no structural call has been issued earlier in that pass.
C8_NoEditBeforeThrow ==
    (upgrade.ran /\ upgrade.error \in DefinitionErrors) => upgrade.edits = <<>>

\* The last batch was started by the coordinator (and is in flight or settled).
BatchStarted == tx.opened > 0

\* C9: batch atomicity.  When a task of a batch fails, the stores hold what they
\* held before the batch, and the promise is rejected with the error of the
\* failing task: the first task of the list that was not executed, an add() of
\* a key that exists, which the engine refuses with a ConstraintError.  (A batch
\* that an INTERRUPT task ended is rejected with an AbortError: see C18.)
C9_FailedBatchLeavesNoMutation ==
    (BatchStarted /\ txPromise.state = "rejected" /\ txPromise.error # "AbortError") =>
        /\ dbStores = tx.before
        /\ txPromise.task = Len(tx.log) + 1
        /\ txPromise.task <= Len(tx.submitted)
        /\ tx.submitted[txPromise.task].type = "ADD"
        /\ txPromise.error = "ConstraintError"

\* C9 witness: a batch failed after an earlier task of it had added a record.
C9_Witness ==
    /\ BatchStarted
    /\ txPromise.state = "rejected"
    /\ Len(tx.log) >= 1
    /\ tx.log[1].type = "ADD"

\* C10: batch ordering.  The tasks of a batch run in submission order, inside one
\* read-write engine transaction whose scope is the set of store names the tasks
\* name (an INTERRUPT task names none).
C10_BatchRunsInOrderInOneTransaction ==
    BatchStarted =>
        /\ tx.opened = 1
        /\ tx.mode = "readwrite"
        /\ tx.scope = {tx.submitted[i].storeName : i \in 1..Len(tx.submitted)}
                          \ {interrupt.storeName}
        /\ Len(tx.log) <= Len(tx.submitted)
        /\ tx.log = SubSeq(tx.submitted, 1, Len(tx.log))
        /\ (txPromise.state = "resolved") => (tx.log = tx.submitted)

\* C10 witness: a batch of two different tasks on two stores has committed.
C10_Witness ==
    /\ BatchStarted
    /\ txPromise.state = "resolved"
    /\ Len(tx.submitted) = 2
    /\ tx.submitted[1].storeName # tx.submitted[2].storeName
    /\ tx.submitted[1].type # tx.submitted[2].type

\* C11: transaction(tasks) with an element that is no TransactionTask throws
\* 'Invalid elements' before anything starts: runAll is not invoked (no batch
\* exists, no promise was returned), the step changes neither the stores nor the
\* coordinator, and so no task of the list runs, the well-formed ones before
\* the bad element included.  Every batch that did start has task elements only.
C11_InvalidElementsRunNothing ==
    /\ [](thrown.error = "Invalid elements" =>
            /\ \E i \in 1..Len(thrown.call[2]) : ~IsTransactionTask(thrown.call[2][i])
            /\ ~BatchStarted
            /\ tx = NoTx
            /\ txPromise = NoPromise)
    /\ [](BatchStarted =>
            \A i \in 1..Len(tx.submitted) : IsTransactionTask(tx.submitted[i]))
    /\ [][thrown'.error = "Invalid elements" => UNCHANGED <<dbStores, tx, txPromise>>]_vars

\* C11 witness: transaction() refused a list whose first element is a
\* well-formed task and whose second element is no task, on a ready database.
C11_Witness ==
    /\ thrown.error = "Invalid elements"
    /\ ready
    /\ Len(thrown.call[2]) = 2
    /\ IsTransactionTask(thrown.call[2][1])
    /\ ~IsTransactionTask(thrown.call[2][2])

\* C12: blocked open.  Once the engine has signalled blocked for an open() that
\* needs an upgrade, the promise is rejected with the 'already opened' error and
\* update is not run for that open request, neither before nor after the
\* rejection.
C12_BlockedOpenRunsNoUpdate ==
    /\ request = "blocked" => promise = BlockedError
    /\ promise = BlockedError => upgrade.runs = 0

\* The fields a scheme marks as key, and a field marked unique but not index.
KeyFields(scheme) == {i \in 1..Len(scheme) : scheme[i].configured /\ scheme[i].key}
UniqueWithoutIndex(scheme) ==
    \E i \in 1..Len(scheme) :
        scheme[i].configured /\ scheme[i].unique /\ ~scheme[i].index

\* C14: definition errors are synchronous and leave no partial state.  A call
\* model(storeName, scheme, options) whose storeName is already registered, or
\* whose scheme marks more than one field as key, or has a field unique without
\* index, throws in that very step, and the registry after the step is the
\* registry before it.
C14_DefinitionErrorsKeepRegistry ==
    [][\A n \in StoreSet, d \in Declarations :
          ( /\ model(n, d[1], d[2])
            /\ \/ n \in Range(modelStoreNames(metas))
               \/ Cardinality(KeyFields(d[1])) > 1
               \/ UniqueWithoutIndex(d[1]) )
          => /\ thrown'.error # NoError
             /\ thrown'.call = <<"model", n>>
             /\ metas' = metas]_vars

\* C14 witness: toMeta refused a scheme with two key fields while the registry
\* already held a model.
C14_Witness ==
    /\ thrown.error = "Cannot define mutiple in-line-key"
    /\ thrown.call[1] = "model"
    /\ Len(metas) = 1
    /\ thrown.call[2] \notin Range(modelStoreNames(metas))

\* C19: the registry is frozen while connected.  No step taken between the
\* call of open() and close() changes the registry (model() throws in every
\* ready state and leaves it unchanged), so the registry update() and the
\* operations read is the one declared before open(); model() is accepted
\* again after close().
C19_RegistryFrozenFromOpen ==
    [][(ready \/ request \notin {"none", "done"}) => metas' = metas]_vars

\* C20: the reconciler runs at most once per open() call and only inside the
\* version-upgrade phase.  update() is invoked at most once for an open request,
\* and every step that invokes it is taken while the request is still in flight
\* (it has not succeeded, the instance is not ready) and the stored version is
\* lower than the requested one (an upgrade is needed).
C20_UpdateOnceInUpgradePhase ==
    /\ [](upgrade.runs <= 1)
    /\ [][upgrade'.runs > upgrade.runs =>
            /\ request \in {"pending", "blocked"}
            /\ ~ready
            /\ dbVersion < version]_vars

\* C20 witness: update() has run once for an open() that upgrades an existing
\* database.
C20_Witness ==
    /\ upgrade.runs = 1
    /\ upgrade.beforeVersion >= 1
    /\ request = "upgraded"

\* The batch in flight holds the task of BoxDB.interrupt().
Interrupted == \E i \in 1..Len(tx.submitted) : tx.submitted[i] = interrupt

\* C18: an INTERRUPT task in a batch aborts the transaction of the batch.  The
\* batch never commits; it is rejected with an AbortError at the INTERRUPT task,
\* the stores then hold what they held before the batch (what the earlier tasks
\* wrote is dropped), only the tasks before the INTERRUPT were run, and no result
\* value exists.
C18_InterruptAbortsBatch ==
    (BatchStarted /\ Interrupted) =>
        /\ txPromise.state # "resolved"
        /\ tx.result = NoResult
        /\ dbStores = tx.before
        /\ \A i \in 1..Len(tx.log) : tx.log[i] # interrupt
        /\ (txPromise.state = "rejected" /\ txPromise.error = "AbortError") =>
              /\ tx.submitted[txPromise.task] = interrupt
              /\ tx.log = SubSeq(tx.submitted, 1, txPromise.task - 1)

\* C18 witness: an INTERRUPT ended a batch whose first task had added a record.
C18_Witness ==
    /\ BatchStarted
    /\ txPromise.state = "rejected"
    /\ txPromise.error = "AbortError"
    /\ txPromise.task = 2
    /\ tx.log[1].type = "ADD"
    /\ tx.submitted[2] = interrupt

\* ------------------------------------------------------- the box operations
\* The step is a call of transaction() or of an operation of the box that
\* runs or throws (a $-function only returns a task; close() is no operation
\* of the box).
Submitted == created # <<>> /\ created' = <<>>
Operated ==
    /\ BoxIdle
    /\ \/ txPromise' # txPromise
       \/ thrown'.error # NoError /\ thrown'.call[1] # "close"
NotReadyRejection == Promise("rejected", "Database not ready", 0)

\* C13: in a state where the database is not ready (never opened, or closed),
\* transaction(tasks) and every operation of the box fail with the not-ready
\* error and reach no engine operation.
C13_NotReadyFailsNotReady ==
    [][(~ready /\ (Submitted \/ Operated))
          => /\ txPromise' = NotReadyRejection
             /\ ~tx'.active
             /\ thrown' = thrown
             /\ dbStores' = dbStores]_vars

\* C13 as it holds: in a state where the database is not ready the coordinator
\* holds no connection; transaction(tasks) and every operation of the box
\* fail and reach no engine operation, with the not-ready error when the
\* arguments pass their validation and with the validation error otherwise.
C13_NotReadyReachesNoEngine ==
    /\ [](~ready => txIdb # "open")
    /\ [][(~ready /\ (Submitted \/ Operated))
            => /\ ~tx'.active
               /\ dbStores' = dbStores
               /\ \/ txPromise' = NotReadyRejection /\ thrown' = thrown
                  \/ /\ thrown'.error \in ValidationErrors \cup {"Invalid elements"}
                     /\ txPromise' = txPromise]_vars

\* An add() with a valid value was rejected on the closed database.
C13_Witness ==
    /\ ~ready
    /\ connection = "closed"
    /\ txPromise = NotReadyRejection
    /\ Len(tx.submitted) = 1
    /\ tx.submitted[1].type = "ADD"
    /\ pass(tx.submitted[1].value, TRUE) = NoError

\* The check the builders put before a task of each kind: strict for ADD,
\* at least the non-strict one for PUT and for the update value of $UPDATE.
Checked(task) ==
    IF task.type = "ADD" THEN pass(task.value, TRUE) = NoError
    ELSE IF task.type = "PUT" THEN pass(task.value, FALSE) = NoError
    ELSE IF task.type = "$UPDATE" THEN pass(task.updateValue, FALSE) = NoError
    ELSE TRUE

\* C15: a payload that fails validation never reaches the engine.  Every task
\* handed to run(), run by the engine or returned by a $-function carries a
\* payload that passed the validator; a call whose validator throws leaves the
\* coordinator, the stores and the task descriptors as they were, and the
\* value it was called with is one the strict validator refuses.
C15_InvalidPayloadNeverRuns ==
    /\ [](/\ \A i \in 1..Len(tx.submitted) : Checked(tx.submitted[i])
          /\ \A i \in 1..Len(tx.log) : Checked(tx.log[i])
          /\ \A i \in 1..Len(created) : Checked(created[i].task))
    /\ [](thrown.error \in ValidationErrors => pass(thrown.call[3], TRUE) # NoError)
    /\ [][thrown'.error \in ValidationErrors
            => UNCHANGED <<tx, txPromise, dbStores, created>>]_vars

\* add() threw on a value with a missing property, on the open database with
\* records stored.
C15_Witness ==
    /\ thrown.error = "TypeError"
    /\ thrown.call[1] = "add"
    /\ ready
    /\ dbStores[BoxName].records # {}
    /\ tx = NoTx
    /\ created = <<>>

\* The promise of a call of one of the functions ops is resolved; the records
\* the store held when it was called.
Resolved(ops) ==
    /\ tx.single
    /\ txPromise.state = "resolved"
    /\ tx.call.op \in ops
StoredBefore == tx.before[BoxName].records
\* The records of the store the call selects: in its range, and every filter
\* function returns true for them.
Qualifying(task) ==
    {k \in StoredBefore :
        /\ task.range.defined => (task.range.lower <= k /\ k <= task.range.upper)
        /\ \A i \in 1..Len(task.filter) : k \in task.filter[i]}

\* C16: find(...).get and query(range).get in ascending order with limit N
\* over a store with more than N qualifying records resolve with exactly N
\* records, the N qualifying records of least key in ascending order, and the
\* cursor advanced no further than the N-th of them.
C16_BulkGetLimit ==
    Resolved({"find.get", "query.get"}) =>
        LET task == tx.call.args
            N == task.limit
            got == tx.result.value
        IN  (task.direction # "prev" /\ N # NoLimit /\ Cardinality(Qualifying(task)) > N)
                => /\ tx.result.kind = "records"
                   /\ Len(got) = N
                   /\ \A i \in 1..N : got[i] \in Qualifying(task)
                   /\ \A i, j \in 1..N : i < j => got[i] < got[j]
                   /\ \A k \in Qualifying(task) \ Range(got) : \A i \in 1..N : got[i] < k
                   /\ tx.advanced =
                          Cardinality({k \in StoredBefore :
                                          /\ task.range.defined => task.range.lower <= k
                                          /\ k <= got[N]})

\* find(key > 1).get(ascending, 1) over three records, two of them qualifying.
C16_Witness ==
    /\ Resolved({"find.get"})
    /\ tx.call.args.direction = "next"
    /\ tx.call.args.limit = 1
    /\ Len(tx.call.args.filter) = 1
    /\ Cardinality(StoredBefore) = 3
    /\ Cardinality(Qualifying(tx.call.args)) = 2
    /\ tx.result = Result("records", <<2>>)

\* C17: find(...).delete and query(range).delete remove exactly the records for which every filter
\* function returns true (within the range) and leaves every other record of
\* the store; with no filter function and no range it removes all records.
C17_BulkDeleteByPredicate ==
    Resolved({"find.delete", "query.delete"}) =>
        LET task == tx.call.args
        IN  /\ dbStores[BoxName].records = StoredBefore \ Qualifying(task)
            /\ \A n \in StoreSet \ {BoxName} : dbStores[n] = tx.before[n]
            /\ (task.filter = <<>> /\ ~task.range.defined)
                   => dbStores[BoxName].records = {}

\* find(key > 1, key < 3).delete() over three records removed the one of key 2.
C17_Witness ==
    /\ Resolved({"find.delete"})
    /\ Len(tx.call.args.filter) = 2
    /\ StoredBefore = {1, 2, 3}
    /\ dbStores[BoxName].records = {1, 3}

\* C21: the task built by find(filter).update(value) and by
\* $find(filter).update(value) carries value as its update payload.
C21_UpdatePayloadCarried ==
    /\ tx.call.op = "find.update"
           => tx.submitted[1].updateValue = tx.call.args.updateValue
    /\ \A i \in 1..Len(created) :
           created[i].call.op = "find.update"
               => created[i].task.updateValue = created[i].call.args.updateValue

\* ------------------------------------------- handler and $-function agree
\* The value a call hands to the validator, and the name a $-function has in
\* the exception record.
CallValue(call) ==
    IF call.op \in {"add", "put"} THEN call.args.value ELSE call.args.updateValue
FactoryName(op) ==
    IF op = "add" THEN "$add"
    ELSE IF op = "put" THEN "$put"
    ELSE IF op = "delete" THEN "$delete"
    ELSE IF op = "query.update" THEN "$query.update"
    ELSE IF op = "query.delete" THEN "$query.delete"
    ELSE IF op = "find.update" THEN "$find.update"
    ELSE "$find.delete"
\* The coordinator holds the task of a handler call and created the task of
\* the $-function of the same name called with the same arguments.
Paired ==
    /\ created # <<>>
    /\ tx.call.op = created[1].call.op
    /\ tx.call.b = created[1].call.b
    /\ tx.call.args = created[1].call.args

\* C22: for the same arguments the task a handler function passes to run and
\* the task the $-function of the same name returns are equal in kind, store
\* name, payload, range and filter functions, and the two apply the same
\* validation: neither throws on a value the other has accepted.
C22_HandlerAndFactoryAgree ==
    /\ Paired =>
          LET passed == tx.submitted[1]
              made == created[1].task
          IN  /\ passed.type = made.type
              /\ passed.storeName = made.storeName
              /\ passed.value = made.value
              /\ passed.key = made.key
              /\ passed.updateValue = made.updateValue
              /\ passed.range = made.range
              /\ passed.filter = made.filter
    /\ (thrown.error \in ValidationErrors /\ created # <<>>)
          => ~ /\ thrown.call[1] = created[1].call.op
               /\ thrown.call[2] = created[1].call.b
               /\ thrown.call[3] = CallValue(created[1].call)
    /\ (thrown.error \in ValidationErrors /\ tx.call.op # "none")
          => ~ /\ thrown.call[1] = FactoryName(tx.call.op)
               /\ thrown.call[2] = tx.call.b
               /\ thrown.call[3] = CallValue(tx.call)

\* find(key > 1).update(value) of BoxModelBuilder ran on the open database
\* while the task of $find(key > 1).update(value) is kept.
C22_Witness ==
    /\ Paired
    /\ tx.call.op = "find.update"
    /\ tx.call.b = "BoxModelBuilder"
    /\ tx.call.args.updateValue = Value("number", "null", "absent")
    /\ Len(tx.call.args.filter) = 1
    /\ txPromise.state = "resolved"

\* ------------------------------------------------------ validation result
\* What a value is expected to be accepted for: in strict mode its key set is
\* the key set of the schema and every property value is null or of the
\* declared type; in non-strict mode its key set is a subset of it.
KeysOf(value) == {k \in DOMAIN value : value[k] # "absent"}
BoxKeys == {BoxSchema[i].field : i \in 1..Len(BoxSchema)}
StrictAccepts(value) ==
    /\ KeysOf(value) = BoxKeys
    /\ \A k \in BoxKeys : value[k] \in {"null", BoxTypes[k]}
LooseAccepts(value) == KeysOf(value) \subseteq BoxKeys

StrictCalls == {"add", "$add"}
LooseCalls ==
    {"put", "$put", "find.update", "$find.update", "query.update", "$query.update"}

\* C23: add and $add accept a value iff it passes the strict test; put and
\* the bulk updates (and their $-functions) accept a value iff it passes the
\* non-strict test.  A call that threw refused its value, a call whose task
\* was run or returned accepted it.
C23_ValidationResult ==
    /\ (thrown.error \in ValidationErrors /\ thrown.call[1] \in StrictCalls)
           => ~StrictAccepts(thrown.call[3])
    /\ (thrown.error \in ValidationErrors /\ thrown.call[1] \in LooseCalls)
           => ~LooseAccepts(thrown.call[3])
    /\ tx.call.op \in StrictCalls => StrictAccepts(CallValue(tx.call))
    /\ tx.call.op \in LooseCalls => LooseAccepts(CallValue(tx.call))
    /\ \A i \in 1..Len(created) :
           /\ created[i].call.op \in StrictCalls => StrictAccepts(CallValue(created[i].call))
           /\ created[i].call.op \in LooseCalls => LooseAccepts(CallValue(created[i].call))

\* ------------------------------------------------- the edits of one upgrade
StoreEdits == {"deleteObjectStore", "createObjectStore"}
EditsOn(n, ops) ==
    {i \in 1..Len(upgrade.edits) : upgrade.edits[i].store = n /\ upgrade.edits[i].op \in ops}

\* C24: during reconciliation a live store is deleted only if it has no
\* registry entry or its entry has force set; a live, registered, non-forced
\* store is neither deleted nor created again and keeps its key configuration
\* and its records, whatever is done to other stores and to its indexes.
C24_StoreDeletionConfined ==
    upgrade.ran =>
        /\ \A i \in 1..Len(upgrade.edits) :
               upgrade.edits[i].op = "deleteObjectStore"
                   => \/ upgrade.edits[i].store \notin Registered
                      \/ getBoxMeta(upgrade.metas, upgrade.edits[i].store).force
        /\ \A n \in StoreSet :
               LiveKept(n)
                   => /\ EditsOn(n, StoreEdits) = {}
                      /\ dbStores[n].live
                      /\ dbStores[n].keyPath = upgrade.before[n].keyPath
                      /\ dbStores[n].autoIncrement = upgrade.before[n].autoIncrement
                      /\ dbStores[n].records = upgrade.before[n].records

\* A kept store had an index edited in the upgrade that deleted another store.
C24_Witness ==
    /\ upgrade.ran
    /\ \E n \in StoreSet, m \in StoreSet :
           /\ n # m
           /\ LiveKept(n)
           /\ EditsOn(n, {"createIndex", "deleteIndex"}) # {}
           /\ EditsOn(m, {"deleteObjectStore"}) # {}

\* The engine's view of the stores while the edits of an upgrade are replayed:
\* for each store whether it is live and the names of its indexes.
Shape(db) ==
    [n \in StoreSet |->
        [live |-> db[n].live, names |-> {i.keyPath : i \in db[n].indexes}]]

\* The engine accepts edit e on the stores of shape sh.
Acceptable(sh, e) ==
    IF e.op = "deleteObjectStore" THEN sh[e.store].live
    ELSE IF e.op = "createObjectStore" THEN ~sh[e.store].live
    ELSE IF e.op = "createIndex"
    THEN sh[e.store].live /\ e.keyPath \notin sh[e.store].names
    ELSE sh[e.store].live /\ e.keyPath \in sh[e.store].names

After(sh, e) ==
    IF e.op = "deleteObjectStore" THEN [sh EXCEPT ![e.store] = [live |-> FALSE, names |-> {}]]
    ELSE IF e.op = "createObjectStore"
    THEN [sh EXCEPT ![e.store] = [live |-> TRUE, names |-> {}]]
    ELSE IF e.op = "createIndex"
    THEN [sh EXCEPT ![e.store].names = @ \cup {e.keyPath}]
    ELSE [sh EXCEPT ![e.store].names = @ \ {e.keyPath}]

\* Every edit from the k-th on is acceptable at the moment it is issued.
RECURSIVE AllAcceptable(_, _, _)
AllAcceptable(sh, edits, k) ==
    IF k > Len(edits) THEN TRUE
    ELSE Acceptable(sh, edits[k]) /\ AllAcceptable(After(sh, edits[k]), edits, k + 1)

EngineErrors == {"NotFoundError", "ConstraintError", "InvalidStateError"}

\* C26: in one reconciliation pass no structural edit is issued that the
\* engine would reject: no index is created under a name live on the store,
\* no index or store is deleted that is not live at that moment, no store is
\* created under a live name; update() ends with no engine error.
C26_NoRejectedEdit ==
    upgrade.ran =>
        /\ AllAcceptable(Shape(upgrade.before), upgrade.edits, 1)
        /\ upgrade.error \notin EngineErrors

\* An upgrade issued a call of each of the four kinds.
C26_Witness ==
    /\ upgrade.ran
    /\ \A op \in {"deleteObjectStore", "createObjectStore", "createIndex", "deleteIndex"} :
           \E i \in 1..Len(upgrade.edits) : upgrade.edits[i].op = op
    /\ \E n \in StoreSet : LiveKept(n) /\ EditsOn(n, {"deleteIndex"}) # {}

\* C25: isReady() is true only after an open() whose promise resolved and
\* before the next close(); after an open() whose promise rejected it stays
\* false under every later event of that request.
C25_ReadyOnlyAfterResolvedOpen ==
    ready => (promise = "resolved" /\ request = "done" /\ connection = "open")

\* C27: close() on a database that is not ready throws 'Database not ready'
\* and changes nothing; close() on a ready database closes the coordinator
\* and the engine connection and sets ready to false, so that a close() that
\* follows it throws.
C27_CloseOnlyWhenReady ==
    /\ [](thrown.error = "Database not ready" => ~ready)
    /\ [][(thrown.error = NoError /\ thrown'.error = "Database not ready")
            => /\ thrown'.call = <<"close">>
               /\ ~ready
               /\ UNCHANGED <<version, metas, ready, request, promise, connection,
                              dbVersion, dbStores, upgrade, tx, txPromise, txIdb,
                              created, other>>]_vars
    /\ [][(connection = "open" /\ connection' = "closed")
            => /\ ready
               /\ ~ready'
               /\ txIdb' = "none"
               /\ thrown' = thrown]_vars
    /\ [][(ready /\ ~ready') => (connection' = "closed" /\ txIdb' = "none")]_vars

\* close() threw on the database that a close() before had closed, after a
\* batch that stored a record.
C27_Witness ==
    /\ thrown.error = "Database not ready"
    /\ thrown.call = <<"close">>
    /\ connection = "closed"
    /\ txIdb = "none"
    /\ \E n \in StoreSet : dbStores[n].records # {}

====
